---- MODULE Spec2Model ----
(***************************************************************************)
(* Model of the MCP connection manager of bolt.diy:                        *)
(*   - app/lib/services/mcp.ts      createMCPClient, createSSEClient,      *)
(*                                  createStdioClient, createMCPClients    *)
(*   - app/routes/api.mcp-check.ts  action (the check cycle)               *)
(*                                                                         *)
(* A server is identified by its position 1..n in Object.entries order of  *)
(* the mcpServers mapping.  Every await on the MCP library (connect,       *)
(* tools(), close()) is one step whose outcome the environment chooses.    *)
(* Text is a sequence of string fragments; concatenation is \o.            *)
(***************************************************************************)
EXTENDS Integers, Sequences, FiniteSets, TLC

VARIABLES
  prog,          \* which entry point runs: "check" (action) or "clients" (createMCPClients)
  kind,          \* JS kind of the mcpServers value ("badjson": request.json() throws)
  n,             \* number of entries Object.entries(mcpServers) yields
  cfg,           \* cfg[i]: the serverConfig of the i-th entry
  phase,         \* "init", "running", "responded"; closeMCPClients: "closing", "closed"
  pc,            \* pc[i]: position of the unit / loop iteration of server i
  outcome,       \* outcome[i]: what the MCP library answered for server i
  fault,         \* fault[i]: the error message the MCP library raised at each step
  jitter,        \* history: some unit completed before a unit of an earlier key
  toolsOf,       \* toolsOf[i]: tool names server i declared in the tools() answer its caller used
  transport,     \* transport[i]: transport factories used for server i
  probeCalls,    \* probeCalls[i]: number of tools() calls issued on connection i
  closeCalls,    \* closeCalls[i]: number of close() calls issued on connection i
  serverStatus,  \* action: Record<string, boolean>
  serverErrors,  \* action: Record<string, string>
  serverTools,   \* action: Record<string, any>
  response,      \* action: the Response returned
  tools,         \* createMCPClients: flat tool mapping
  clients,       \* createMCPClients: list of clients (server positions)
  listeners,     \* mcpConfigEvents.listeners: the Set's elements in insertion order
  registered,    \* history: callbacks added and not unsubscribed since
  unsubscribed,  \* history: callbacks for which a returned unsubscribe function was called
  repeated,      \* history: an addListener / unsubscribe call that found nothing to do
  invoked,       \* invoked[cb]: calls of cb made by the latest notifyChange
  lastOp,        \* the latest call on mcpConfigEvents
  db,            \* useChatHistory's db is available
  config,        \* useMCPConfig: config state
  lastUpdate,    \* useMCPConfig: lastUpdate state
  stored,        \* the config held by IndexedDB
  pending,       \* updateConfig: the newConfig being saved
  upc,           \* updateConfig: "idle" or "saving" (awaiting saveMCPConfig)
  notified,      \* number of notifyChange calls updateConfig made
  toast,         \* the latest toast shown
  now,           \* Date.now(), advanced by every step of updateConfig
  checkingServers, \* McpConnection: checkingServers state
  cpc,           \* cpc[k]: position of the k-th checkServerAvailability call
  path,          \* path[k]: the path the k-th call took
  uiError,       \* McpConnection: error state
  uiResult       \* McpConnection: serverStatus/serverErrors/serverTools states

vars == <<prog, kind, n, cfg, phase, pc, outcome, fault, jitter, toolsOf, transport, probeCalls,
          closeCalls, serverStatus, serverErrors, serverTools, response, tools, clients,
          listeners, registered, unsubscribed, repeated, invoked, lastOp,
          db, config, lastUpdate, stored, pending, upc, notified, toast, now,
          checkingServers, cpc, path, uiError, uiResult>>

\* state of the MCP service and of the check route
mcpVars == <<kind, n, cfg, phase, pc, outcome, fault, jitter, toolsOf, transport, probeCalls,
             closeCalls, serverStatus, serverErrors, serverTools, response, tools, clients>>

\* state of mcpConfigEvents
eventVars == <<listeners, registered, unsubscribed, repeated, invoked, lastOp>>

\* state of useMCPConfig
hookVars == <<db, config, lastUpdate, stored, pending, upc, notified, toast, now>>

\* state of McpConnection
panelVars == <<checkingServers, cpc, path, uiError, uiResult>>

\* state of the browser side
appVars == <<eventVars, hookVars, panelVars>>

(***************************************************************************)
(* Bounds                                                                  *)
(***************************************************************************)
MaxServers == 2

ToolNames == {"x", "y"}

ToolSets == {{}, {"x"}, {"x", "y"}}

ExtErrors == {<<"connection refused">>}

\* listener callbacks (distinct function objects)
Callbacks == {"f", "g"}

\* cap on the length of the listener list
MaxListeners == 3

\* config values passed to updateConfig; NoConfig is null
ConfigValues == {"c1", "c2"}

NoConfig == "null"

\* cap on the clock: every step of updateConfig advances it
MaxClock == 4

\* number of checkServerAvailability calls, which may overlap
MaxChecks == 2

(***************************************************************************)
(* JS values                                                               *)
(***************************************************************************)
Kinds == {"badjson", "undefined", "null", "string", "number", "object"}

\* ServerConfig: presence (truthiness) of command and url, and the type tag.
NullCfg == [isNull |-> TRUE, type |-> "absent", command |-> FALSE, url |-> FALSE]

Configs ==
  {NullCfg} \cup
  [isNull : {FALSE}, type : {"sse", "absent"}, command : BOOLEAN, url : BOOLEAN]

\* configs that state their kind: the type tag of StdioMCPConfig / SSEMCPConfig
TypedConfigs ==
  {NullCfg} \cup
  [isNull : {FALSE}, type : {"sse", "stdio"}, command : BOOLEAN, url : BOOLEAN]

\* one config per path through createMCPClient's validation and transport choice
PathConfigs ==
  {NullCfg,
   [isNull |-> FALSE, type |-> "sse", command |-> FALSE, url |-> TRUE],
   [isNull |-> FALSE, type |-> "sse", command |-> FALSE, url |-> FALSE],
   [isNull |-> FALSE, type |-> "absent", command |-> TRUE, url |-> FALSE],
   [isNull |-> FALSE, type |-> "absent", command |-> FALSE, url |-> FALSE]}

\* A one-character string used as serverConfig (an entry of Object.entries("ab")):
\* truthy, and every property read is undefined.
CharCfg == [isNull |-> FALSE, type |-> "absent", command |-> FALSE, url |-> FALSE]

EmptyMap == [k \in {} |-> TRUE]

\* obj[k] = v
Put(m, k, v) == [j \in (DOMAIN m) \cup {k} |-> IF j = k THEN v ELSE m[j]]

\* !v
Falsy(k, len) == k \in {"undefined", "null"} \/ (k = "string" /\ len = 0)

\* typeof v
TypeOf(k) ==
  CASE k = "undefined" -> "undefined"
    [] k = "null"      -> "object"
    [] k = "string"    -> "string"
    [] k = "number"    -> "number"
    [] OTHER           -> "object"

\* variant: the typeof test is dropped, only !mcpServers is tested
InvalidBodyFalsyOnly(k, len) == Falsy(k, len)

\* api.mcp-check.ts line 12: !mcpServers || typeof mcpServers !== 'object'
InvalidBody(k, len) == Falsy(k, len) \/ TypeOf(k) # "object"

ServerName(i) == ToString(i)

\* the descriptor server i declares for tool t
Descriptor(i, t) == <<ServerName(i), t>>

\* the value client.tools() resolves to when server i declares the tool names ts
ToolSetOf(i, ts) == [t \in ts |-> Descriptor(i, t)]

\* variant: keys already present in the target are kept (first writer wins)
ObjectAssignKeepFirst(target, source) ==
  [t \in (DOMAIN target) \cup (DOMAIN source) |->
     IF t \in DOMAIN target THEN target[t] ELSE source[t]]

\* Object.assign(target, source)
ObjectAssign(target, source) ==
  [t \in (DOMAIN target) \cup (DOMAIN source) |->
     IF t \in DOMAIN source THEN source[t] ELSE target[t]]

(***************************************************************************)
(* createMCPClient: validation and error texts                             *)
(***************************************************************************)
NoError == << >>

\* variant: the type tag is ignored
IsSSEByUrl(c) == ~c.command /\ c.url

\* line 45
IsSSE(c) == c.type = "sse" \/ (~c.command /\ c.url)

ValidationError(i, c) ==
  IF c.isNull THEN <<"Invalid configuration for server \"", ServerName(i), "\"">>
  ELSE IF IsSSE(c) /\ ~c.url THEN <<"Missing URL for SSE server \"", ServerName(i), "\"">>
  ELSE IF ~IsSSE(c) /\ ~c.command THEN <<"Missing command for stdio server \"", ServerName(i), "\"">>
  ELSE NoError

TransportOf(c) == IF IsSSE(c) THEN "sse" ELSE "stdio"

\* variant: the transport's error is passed on unwrapped
ConnectErrorRaw(c, e) == e

\* createSSEClient / createStdioClient catch blocks
ConnectError(c, e) ==
  IF IsSSE(c) THEN <<"Failed to connect to SSE endpoint \"", "url", "\": ">> \o e
  ELSE <<"Failed to start command \"", "command", "\": ">> \o e

\* createMCPClient catch block around client.tools()
VerifyError(e) == <<"Server connection established but failed to get available tools: ">> \o e

\* action: serverErrors entry when its own tools() call fails
ToolsError(e) == <<"Connected but failed to get tools: ">> \o e

(***************************************************************************)
(* Initial states                                                          *)
(***************************************************************************)
NoOutcome == [connect |-> "none", probe1 |-> "none", probe2 |-> "none", close |-> "none"]

NoFault == [connect |-> << >>, probe1 |-> << >>, probe2 |-> << >>, close |-> << >>]

NoResponse == [status |-> 0, error |-> << >>, serverStatus |-> EmptyMap,
               serverErrors |-> EmptyMap, serverTools |-> EmptyMap]

InitWith(configs) ==
  /\ prog \in {"check", "clients", "events", "hook", "panel"}
  /\ kind \in Kinds
  /\ prog \in {"events", "hook", "panel"} => (kind = "undefined" /\ n = 0)
  /\ prog = "clients" => kind # "badjson"
  /\ n \in 0..MaxServers
  /\ kind \notin {"string", "object"} => n = 0
  /\ cfg \in [1..n -> configs]
  /\ kind = "string" => \A i \in 1..n : cfg[i] = CharCfg
  /\ phase = "init"
  /\ pc = [i \in 1..n |-> "idle"]
  /\ outcome = [i \in 1..n |-> NoOutcome]
  /\ fault = [i \in 1..n |-> NoFault]
  /\ jitter = FALSE
  /\ toolsOf = [i \in 1..n |-> {}]
  /\ transport = [i \in 1..n |-> {}]
  /\ probeCalls = [i \in 1..n |-> 0]
  /\ closeCalls = [i \in 1..n |-> 0]
  /\ serverStatus = EmptyMap
  /\ serverErrors = EmptyMap
  /\ serverTools = EmptyMap
  /\ response = NoResponse
  /\ tools = EmptyMap
  /\ clients = << >>
  /\ listeners = << >>
  /\ registered = {}
  /\ unsubscribed = {}
  /\ repeated = {}
  /\ invoked = [cb \in Callbacks |-> 0]
  /\ lastOp = "none"
  /\ db \in BOOLEAN
  /\ prog # "hook" => db = FALSE
  /\ config = NoConfig
  /\ lastUpdate = 0
  /\ stored = NoConfig
  /\ pending = NoConfig
  /\ upc = "idle"
  /\ notified = 0
  /\ toast = "none"
  /\ now = 0
  /\ checkingServers = FALSE
  /\ cpc = [k \in 1..MaxChecks |-> "idle"]
  /\ path = [k \in 1..MaxChecks |-> "none"]
  /\ uiError = "null"
  /\ uiResult = "empty"

\* configs with an optional type tag (ServerConfig)
Init == InitWith(Configs)

\* configs with an explicit type tag
InitTyped == InitWith(TypedConfigs)

\* one config per path of createMCPClient
InitPaths == InitWith(PathConfigs)

(***************************************************************************)
(* api.mcp-check.ts: action                                                *)
(***************************************************************************)
\* variant: each unit is awaited before the next one is started
MapReadySequential(i) == \A j \in 1..(i - 1) : pc[j] = "done"

\* .map() runs every callback synchronously up to its first await, in entry order
MapReady(i) == \A j \in 1..(i - 1) : pc[j] # "idle"

AllStarted == \A i \in 1..n : pc[i] # "idle"

\* unit i completes while the unit of an earlier key is still running
Overtakes(i) == \E j \in 1..(i - 1) : pc[j] \notin {"done", "rejected"}

\* variant: the createMCPClient call sits outside the try block
CaughtExceptCreate(step) == step # "create"

\* variant: the close() call sits outside the try block
CaughtExceptClose(step) == step # "close"

\* the try block of lines 22..43 encloses every step of the unit
CaughtInUnit(step) == TRUE

\* variant: the catch block forgets to record the status
CatchStatusSkip(st, i) == st

\* catch block, lines 46 and 47
CatchStatus(st, i) == Put(st, i, FALSE)

\* variant: the catch block forgets to record the error text
CatchErrorsSkip(er, i, msg) == er

CatchErrors(er, i, msg) == Put(er, i, msg)

\* an exception raised at a step of unit i
UnitFails(i, step, msg) ==
  /\ jitter' = (jitter \/ Overtakes(i))
  /\ IF CaughtInUnit(step)
     THEN /\ serverStatus' = CatchStatus(serverStatus, i)
          /\ serverErrors' = CatchErrors(serverErrors, i, msg)
          /\ pc' = [pc EXCEPT ![i] = "done"]
     ELSE /\ pc' = [pc EXCEPT ![i] = "rejected"]
          /\ UNCHANGED <<serverStatus, serverErrors>>

\* lines 8..18
CheckBegin ==
  /\ prog = "check" /\ phase = "init"
  /\ IF kind = "badjson"
     THEN /\ response' = [NoResponse EXCEPT !.status = 500,
                                            !.error = <<"Failed to check MCP servers">>]
          /\ phase' = "responded"
     ELSE IF InvalidBody(kind, n)
     THEN /\ response' = [NoResponse EXCEPT !.status = 400,
                                            !.error = <<"Invalid MCP servers configuration">>]
          /\ phase' = "responded"
     ELSE /\ phase' = "running"
          /\ UNCHANGED response
  /\ UNCHANGED <<fault, jitter, prog, kind, n, cfg, pc, outcome, toolsOf, transport, probeCalls, closeCalls,
                 serverStatus, serverErrors, serverTools, tools, clients>>
  /\ UNCHANGED appVars

\* line 21 and line 23 up to the first await inside createMCPClient (mcp.ts 41..57)
CheckStartUnit(i) ==
  /\ prog = "check" /\ phase = "running"
  /\ pc[i] = "idle" /\ MapReady(i)
  /\ IF ValidationError(i, cfg[i]) # NoError
     THEN /\ pc' = [pc EXCEPT ![i] = "threw"]
          /\ UNCHANGED transport
     ELSE /\ pc' = [pc EXCEPT ![i] = "connecting"]
          /\ transport' = [transport EXCEPT ![i] = @ \cup {TransportOf(cfg[i])}]
  /\ UNCHANGED <<fault, jitter, prog, kind, n, cfg, phase, outcome, toolsOf, probeCalls, closeCalls,
                 serverStatus, serverErrors, serverTools, response, tools, clients>>
  /\ UNCHANGED appVars

\* the rejection of createMCPClient for an invalid config reaches the catch block
CheckInvalid(i) ==
  /\ prog = "check" /\ AllStarted
  /\ pc[i] = "threw"
  /\ UnitFails(i, "create", ValidationError(i, cfg[i]))
  /\ UNCHANGED <<fault, prog, kind, n, cfg, phase, outcome, toolsOf, transport, probeCalls, closeCalls,
                 serverTools, response, tools, clients>>
  /\ UNCHANGED appVars

\* experimental_createMCPClient resolves; createMCPClient calls client.tools() (mcp.ts 61)
CheckConnectOk(i) ==
  /\ prog = "check" /\ AllStarted
  /\ pc[i] = "connecting"
  /\ outcome' = [outcome EXCEPT ![i].connect = "ok"]
  /\ probeCalls' = [probeCalls EXCEPT ![i] = @ + 1]
  /\ pc' = [pc EXCEPT ![i] = "probe1"]
  /\ UNCHANGED <<fault, jitter, prog, kind, n, cfg, phase, toolsOf, transport, closeCalls,
                 serverStatus, serverErrors, serverTools, response, tools, clients>>
  /\ UNCHANGED appVars

\* experimental_createMCPClient rejects (mcp.ts 75..77, 94..96)
CheckConnectFail(i) ==
  /\ prog = "check" /\ AllStarted
  /\ pc[i] = "connecting"
  /\ outcome' = [outcome EXCEPT ![i].connect = "fail"]
  /\ \E e \in ExtErrors :
       /\ fault' = [fault EXCEPT ![i].connect = e]
       /\ UnitFails(i, "create", ConnectError(cfg[i], e))
  /\ UNCHANGED <<prog, kind, n, cfg, phase, toolsOf, transport, probeCalls, closeCalls,
                 serverTools, response, tools, clients>>
  /\ UNCHANGED appVars

\* variant: close() is called as soon as createMCPClient has returned
CloseIssuedAfterCreate(step) == IF step = "create" THEN 1 ELSE 0

\* client.close() (line 38) follows the try/catch around the action's tools() call
\* (lines 29..36): the number of close() calls issued when `step` has completed
CloseIssued(step) == IF step = "tools" THEN 1 ELSE 0

\* mcp.ts 61..62 resolves; action lines 25..30: status true, call client.tools()
CheckVerifyOk(i) ==
  /\ prog = "check" /\ AllStarted
  /\ pc[i] = "probe1"
  /\ outcome' = [outcome EXCEPT ![i].probe1 = "ok"]
  /\ serverStatus' = Put(serverStatus, i, TRUE)
  /\ probeCalls' = [probeCalls EXCEPT ![i] = @ + 1]
  /\ closeCalls' = [closeCalls EXCEPT ![i] = @ + CloseIssued("create")]
  /\ pc' = [pc EXCEPT ![i] = "probe2"]
  /\ UNCHANGED <<fault, jitter, prog, kind, n, cfg, phase, toolsOf, transport,
                 serverErrors, serverTools, response, tools, clients>>
  /\ UNCHANGED appVars

\* mcp.ts 63..65: tools() rejects inside createMCPClient, which throws
CheckVerifyFail(i) ==
  /\ prog = "check" /\ AllStarted
  /\ pc[i] = "probe1"
  /\ outcome' = [outcome EXCEPT ![i].probe1 = "fail"]
  /\ \E e \in ExtErrors :
       /\ fault' = [fault EXCEPT ![i].probe1 = e]
       /\ UnitFails(i, "create", VerifyError(e))
  /\ UNCHANGED <<prog, kind, n, cfg, phase, toolsOf, transport, probeCalls, closeCalls,
                 serverTools, response, tools, clients>>
  /\ UNCHANGED appVars

\* lines 30..31 and 38: tools() resolves, tools recorded, close() called
CheckToolsOk(i) ==
  /\ prog = "check" /\ AllStarted
  /\ pc[i] = "probe2"
  /\ outcome' = [outcome EXCEPT ![i].probe2 = "ok"]
  /\ \E ts \in ToolSets :
       /\ toolsOf' = [toolsOf EXCEPT ![i] = ts]
       /\ serverTools' = Put(serverTools, i, ToolSetOf(i, ts))
  /\ closeCalls' = [closeCalls EXCEPT ![i] = @ + CloseIssued("tools")]
  /\ pc' = [pc EXCEPT ![i] = "closing"]
  /\ UNCHANGED <<fault, jitter, prog, kind, n, cfg, phase, transport, probeCalls,
                 serverStatus, serverErrors, response, tools, clients>>
  /\ UNCHANGED appVars

\* lines 32..38: tools() rejects, error recorded, close() called
CheckToolsFail(i) ==
  /\ prog = "check" /\ AllStarted
  /\ pc[i] = "probe2"
  /\ outcome' = [outcome EXCEPT ![i].probe2 = "fail"]
  /\ \E e \in ExtErrors :
       /\ fault' = [fault EXCEPT ![i].probe2 = e]
       /\ serverErrors' = Put(serverErrors, i, ToolsError(e))
  /\ closeCalls' = [closeCalls EXCEPT ![i] = @ + CloseIssued("tools")]
  /\ pc' = [pc EXCEPT ![i] = "closing"]
  /\ UNCHANGED <<jitter, prog, kind, n, cfg, phase, toolsOf, transport, probeCalls,
                 serverStatus, serverTools, response, tools, clients>>
  /\ UNCHANGED appVars

\* line 38: close() resolves, the unit ends
CheckCloseOk(i) ==
  /\ prog = "check" /\ AllStarted
  /\ pc[i] = "closing"
  /\ outcome' = [outcome EXCEPT ![i].close = "ok"]
  /\ pc' = [pc EXCEPT ![i] = "done"]
  /\ jitter' = (jitter \/ Overtakes(i))
  /\ UNCHANGED <<fault, prog, kind, n, cfg, phase, toolsOf, transport, probeCalls, closeCalls,
                 serverStatus, serverErrors, serverTools, response, tools, clients>>
  /\ UNCHANGED appVars

\* line 38: close() rejects inside the try block
CheckCloseFail(i) ==
  /\ prog = "check" /\ AllStarted
  /\ pc[i] = "closing"
  /\ outcome' = [outcome EXCEPT ![i].close = "fail"]
  /\ \E e \in ExtErrors :
       /\ fault' = [fault EXCEPT ![i].close = e]
       /\ UnitFails(i, "close", e)
  /\ UNCHANGED <<prog, kind, n, cfg, phase, toolsOf, transport, probeCalls, closeCalls,
                 serverTools, response, tools, clients>>
  /\ UNCHANGED appVars

\* variant: Promise.race, fulfilled as soon as one unit is
PromiseRaceFulfilled(S) == \E i \in S : pc[i] = "done"

\* variant: the join waits until every server has been recorded as reachable
JoinWaitsForReachable(S) ==
  \A i \in S : pc[i] = "done" /\ i \in DOMAIN serverStatus /\ serverStatus[i]

\* await Promise.all(checkPromises) (line 51) is fulfilled when every unit is
PromiseAllFulfilled(S) == \A i \in S : pc[i] = "done"

\* lines 51..57: Promise.all settles; it rejects as soon as one unit rejects
CheckRespond ==
  /\ prog = "check" /\ phase = "running" /\ AllStarted
  /\ IF \E i \in 1..n : pc[i] = "rejected"
     THEN response' = [NoResponse EXCEPT !.status = 500,
                                         !.error = <<"Failed to check MCP servers">>]
     ELSE /\ PromiseAllFulfilled(1..n)
          /\ response' = [status |-> 200, error |-> << >>, serverStatus |-> serverStatus,
                          serverErrors |-> serverErrors, serverTools |-> serverTools]
  /\ phase' = "responded"
  /\ UNCHANGED <<fault, jitter, prog, kind, n, cfg, pc, outcome, toolsOf, transport, probeCalls, closeCalls,
                 serverStatus, serverErrors, serverTools, tools, clients>>
  /\ UNCHANGED appVars

(***************************************************************************)
(* mcp.ts: createMCPClients                                                *)
(***************************************************************************)
\* variant: the iterations are fanned out without awaiting the previous one
LoopReadyConcurrent(i) == TRUE

\* the for loop awaits each iteration before the next one starts (lines 109..124)
LoopReady(i) == \A j \in 1..(i - 1) : pc[j] = "done"

\* lines 102..107
ClientsBegin ==
  /\ prog = "clients" /\ phase = "init"
  /\ phase' = IF Falsy(kind, n) THEN "responded" ELSE "running"
  /\ UNCHANGED <<fault, jitter, prog, kind, n, cfg, pc, outcome, toolsOf, transport, probeCalls, closeCalls,
                 serverStatus, serverErrors, serverTools, response, tools, clients>>
  /\ UNCHANGED appVars

\* lines 109..111 up to the first await of createMCPClient (41..57); a validation
\* error is caught at line 119 and the loop continues
ClientsStartUnit(i) ==
  /\ prog = "clients" /\ phase = "running"
  /\ pc[i] = "idle" /\ LoopReady(i)
  /\ IF ValidationError(i, cfg[i]) # NoError
     THEN /\ pc' = [pc EXCEPT ![i] = "done"]
          /\ jitter' = (jitter \/ Overtakes(i))
          /\ UNCHANGED transport
     ELSE /\ pc' = [pc EXCEPT ![i] = "connecting"]
          /\ transport' = [transport EXCEPT ![i] = @ \cup {TransportOf(cfg[i])}]
          /\ UNCHANGED jitter
  /\ UNCHANGED <<fault, prog, kind, n, cfg, phase, outcome, toolsOf, probeCalls, closeCalls,
                 serverStatus, serverErrors, serverTools, response, tools, clients>>
  /\ UNCHANGED appVars

\* experimental_createMCPClient resolves; createMCPClient calls client.tools() (line 61)
ClientsConnectOk(i) ==
  /\ prog = "clients"
  /\ pc[i] = "connecting"
  /\ outcome' = [outcome EXCEPT ![i].connect = "ok"]
  /\ probeCalls' = [probeCalls EXCEPT ![i] = @ + 1]
  /\ pc' = [pc EXCEPT ![i] = "probe1"]
  /\ UNCHANGED <<fault, jitter, prog, kind, n, cfg, phase, toolsOf, transport, closeCalls,
                 serverStatus, serverErrors, serverTools, response, tools, clients>>
  /\ UNCHANGED appVars

\* experimental_createMCPClient rejects; the error is caught at line 119
ClientsConnectFail(i) ==
  /\ prog = "clients"
  /\ pc[i] = "connecting"
  /\ outcome' = [outcome EXCEPT ![i].connect = "fail"]
  /\ pc' = [pc EXCEPT ![i] = "done"]
  /\ jitter' = (jitter \/ Overtakes(i))
  /\ UNCHANGED <<fault, prog, kind, n, cfg, phase, toolsOf, transport, probeCalls, closeCalls,
                 serverStatus, serverErrors, serverTools, response, tools, clients>>
  /\ UNCHANGED appVars

\* lines 61..62 resolve; lines 113..116: push the client, call client.tools()
ClientsVerifyOk(i) ==
  /\ prog = "clients"
  /\ pc[i] = "probe1"
  /\ outcome' = [outcome EXCEPT ![i].probe1 = "ok"]
  /\ clients' = Append(clients, i)
  /\ probeCalls' = [probeCalls EXCEPT ![i] = @ + 1]
  /\ pc' = [pc EXCEPT ![i] = "probe2"]
  /\ UNCHANGED <<fault, jitter, prog, kind, n, cfg, phase, toolsOf, transport, closeCalls,
                 serverStatus, serverErrors, serverTools, response, tools>>
  /\ UNCHANGED appVars

\* lines 63..65: tools() rejects inside createMCPClient; caught at line 119
ClientsVerifyFail(i) ==
  /\ prog = "clients"
  /\ pc[i] = "probe1"
  /\ outcome' = [outcome EXCEPT ![i].probe1 = "fail"]
  /\ pc' = [pc EXCEPT ![i] = "done"]
  /\ jitter' = (jitter \/ Overtakes(i))
  /\ UNCHANGED <<fault, prog, kind, n, cfg, phase, toolsOf, transport, probeCalls, closeCalls,
                 serverStatus, serverErrors, serverTools, response, tools, clients>>
  /\ UNCHANGED appVars

\* lines 116..117: tools() resolves and its result is merged
ClientsToolsOk(i) ==
  /\ prog = "clients"
  /\ pc[i] = "probe2"
  /\ outcome' = [outcome EXCEPT ![i].probe2 = "ok"]
  /\ \E ts \in ToolSets :
       /\ toolsOf' = [toolsOf EXCEPT ![i] = ts]
       /\ tools' = ObjectAssign(tools, ToolSetOf(i, ts))
  /\ pc' = [pc EXCEPT ![i] = "done"]
  /\ jitter' = (jitter \/ Overtakes(i))
  /\ UNCHANGED <<fault, prog, kind, n, cfg, phase, transport, probeCalls, closeCalls,
                 serverStatus, serverErrors, serverTools, response, clients>>
  /\ UNCHANGED appVars

\* line 116: tools() rejects; caught at line 119
ClientsToolsFail(i) ==
  /\ prog = "clients"
  /\ pc[i] = "probe2"
  /\ outcome' = [outcome EXCEPT ![i].probe2 = "fail"]
  /\ pc' = [pc EXCEPT ![i] = "done"]
  /\ jitter' = (jitter \/ Overtakes(i))
  /\ UNCHANGED <<fault, prog, kind, n, cfg, phase, toolsOf, transport, probeCalls, closeCalls,
                 serverStatus, serverErrors, serverTools, response, tools, clients>>
  /\ UNCHANGED appVars

\* line 126
ClientsReturn ==
  /\ prog = "clients" /\ phase = "running"
  /\ \A i \in 1..n : pc[i] = "done"
  /\ phase' = "responded"
  /\ UNCHANGED <<fault, jitter, prog, kind, n, cfg, pc, outcome, toolsOf, transport, probeCalls, closeCalls,
                 serverStatus, serverErrors, serverTools, response, tools, clients>>
  /\ UNCHANGED appVars

(***************************************************************************)
(* mcp.ts: closeMCPClients, called with the clients createMCPClients returned *)
(***************************************************************************)
\* variant: the last client of the list is skipped
CloseTargetsButLast(cs) == {cs[k] : k \in 1..(Len(cs) - 1)}

\* clients.map(...): every client of the list (line 130)
CloseTargets(cs) == {cs[k] : k \in 1..Len(cs)}

\* .catch(...) on every close() promise (line 131): the rejection is logged
CloseCaught == TRUE

\* await Promise.allSettled(closePromises) (line 134) never rejects
JoinAllSettled(anyRejected) == "closed"

\* lines 130..132: close() is called on every client before anything is awaited
ClientsCloseAll ==
  /\ prog = "clients" /\ phase = "responded"
  /\ phase' = "closing"
  /\ closeCalls' = [i \in 1..n |-> IF i \in CloseTargets(clients) THEN closeCalls[i] + 1
                                                                 ELSE closeCalls[i]]
  /\ pc' = [i \in 1..n |-> IF i \in CloseTargets(clients) THEN "closing" ELSE pc[i]]
  /\ UNCHANGED <<fault, jitter, prog, kind, n, cfg, outcome, toolsOf, transport, probeCalls,
                 serverStatus, serverErrors, serverTools, response, tools, clients>>
  /\ UNCHANGED appVars

\* a close() promise resolves
ClientsCloseOk(i) ==
  /\ prog = "clients" /\ phase = "closing"
  /\ pc[i] = "closing"
  /\ outcome' = [outcome EXCEPT ![i].close = "ok"]
  /\ pc' = [pc EXCEPT ![i] = "closed"]
  /\ UNCHANGED <<fault, jitter, prog, kind, n, cfg, phase, toolsOf, transport, probeCalls, closeCalls,
                 serverStatus, serverErrors, serverTools, response, tools, clients>>
  /\ UNCHANGED appVars

\* a close() promise rejects; line 131 logs the error
ClientsCloseFail(i) ==
  /\ prog = "clients" /\ phase = "closing"
  /\ pc[i] = "closing"
  /\ outcome' = [outcome EXCEPT ![i].close = "fail"]
  /\ \E e \in ExtErrors : fault' = [fault EXCEPT ![i].close = e]
  /\ pc' = [pc EXCEPT ![i] = IF CloseCaught THEN "closed" ELSE "rejected"]
  /\ UNCHANGED <<jitter, prog, kind, n, cfg, phase, toolsOf, transport, probeCalls, closeCalls,
                 serverStatus, serverErrors, serverTools, response, tools, clients>>
  /\ UNCHANGED appVars

\* line 134: every close promise has settled
ClientsCloseReturn ==
  /\ prog = "clients" /\ phase = "closing"
  /\ \A i \in 1..n : pc[i] # "closing"
  /\ phase' = JoinAllSettled(\E i \in 1..n : pc[i] = "rejected")
  /\ UNCHANGED <<fault, jitter, prog, kind, n, cfg, pc, outcome, toolsOf, transport, probeCalls,
                 closeCalls, serverStatus, serverErrors, serverTools, response, tools, clients>>
  /\ UNCHANGED appVars

(***************************************************************************)
(* useMCPConfig.ts: mcpConfigEvents                                        *)
(***************************************************************************)
\* variant: the listeners are kept in an array and pushed unconditionally
ArrayPush(seq, cb) == Append(seq, cb)

\* Set.prototype.add (line 25): no effect when the value is already in the Set
SetAdd(seq, cb) == IF \E k \in 1..Len(seq) : seq[k] = cb THEN seq ELSE Append(seq, cb)

\* Set.prototype.delete (line 28)
SetDelete(seq, cb) == SelectSeq(seq, LAMBDA x : x # cb)

\* Set.prototype.forEach (line 33): calls made per callback
ForEachCalls(seq) == [cb \in Callbacks |-> Cardinality({k \in 1..Len(seq) : seq[k] = cb})]

Elements(seq) == {seq[k] : k \in 1..Len(seq)}

\* addListener(callback), lines 24..30; the hook's effect (lines 76..81) is a caller
AddListener(cb) ==
  /\ prog \in {"events", "hook"}
  /\ Len(listeners) < MaxListeners
  /\ listeners' = SetAdd(listeners, cb)
  /\ registered' = registered \cup {cb}
  /\ repeated' = IF cb \in Elements(listeners) THEN repeated \cup {"add"} ELSE repeated
  /\ lastOp' = "add"
  /\ UNCHANGED <<prog, mcpVars, unsubscribed, invoked, hookVars, panelVars>>

\* a call of a function addListener(cb) returned, lines 27..29
Unsubscribe(cb) ==
  /\ prog \in {"events", "hook"}
  /\ cb \in registered \cup unsubscribed
  /\ listeners' = SetDelete(listeners, cb)
  /\ registered' = registered \ {cb}
  /\ unsubscribed' = unsubscribed \cup {cb}
  /\ repeated' = IF cb \notin Elements(listeners) THEN repeated \cup {"unsubscribe"} ELSE repeated
  /\ lastOp' = "unsub"
  /\ UNCHANGED <<prog, mcpVars, invoked, hookVars, panelVars>>

\* notifyChange(), lines 32..34
NotifyChange ==
  /\ prog = "events"
  /\ invoked' = ForEachCalls(listeners)
  /\ lastOp' = "notify"
  /\ UNCHANGED <<prog, mcpVars, listeners, registered, unsubscribed, repeated, hookVars, panelVars>>

(***************************************************************************)
(* useMCPConfig.ts: updateConfig                                           *)
(***************************************************************************)
\* variant: the new config is shown before the save has completed
ConfigOptimistic(cur, new) == new

\* the config state while saveMCPConfig is awaited (line 91): setConfig comes after
ConfigWhileSaving(cur, new) == cur

\* lines 84..91: without a db a toast and return; else saveMCPConfig is called
UpdateStart(c) ==
  /\ prog = "hook" /\ upc = "idle"
  /\ now < MaxClock
  /\ now' = now + 1
  /\ IF ~db
     THEN /\ toast' = "Database is not available"
          /\ UNCHANGED <<config, pending, upc>>
     ELSE /\ pending' = c
          /\ upc' = "saving"
          /\ config' = ConfigWhileSaving(config, c)
          /\ UNCHANGED toast
  /\ UNCHANGED <<prog, mcpVars, eventVars, db, lastUpdate, stored, notified, panelVars>>

\* lines 91..98: the save resolved; state is set, the listeners are notified
UpdateSaveOk ==
  /\ prog = "hook" /\ upc = "saving"
  /\ now' = now + 1
  /\ stored' = pending
  /\ config' = pending
  /\ lastUpdate' = now'
  /\ notified' = notified + 1
  /\ invoked' = ForEachCalls(listeners)
  /\ lastOp' = "notify"
  /\ toast' = "MCP configuration saved"
  /\ upc' = "idle"
  /\ UNCHANGED <<prog, mcpVars, listeners, registered, unsubscribed, repeated, db, pending, panelVars>>

\* lines 99..107: the save rejected; the error is logged and a toast shown
UpdateSaveFail ==
  /\ prog = "hook" /\ upc = "saving"
  /\ now' = now + 1
  /\ toast' = "Failed to save MCP configuration"
  /\ upc' = "idle"
  /\ UNCHANGED <<prog, mcpVars, eventVars, db, config, lastUpdate, stored, pending, notified, panelVars>>

(***************************************************************************)
(* MCPConnection.tsx: checkServerAvailability                              *)
(***************************************************************************)
\* configText: not JSON, JSON without mcpServers, JSON with mcpServers
ConfigTexts == {"invalid", "noServers", "servers"}

InFlight == {"fetching", "parsing"}

\* variant: the flag is reset only after a well-formed response
FlagResetOnSuccess(flag, p) == IF p = "ok" THEN FALSE ELSE flag

\* finally { setCheckingServers(false) } (lines 136..138) runs on every path
FlagAfterFinally(flag, p) == FALSE

\* lines 132..138: the inner try ends on path p; catch sets the error, finally runs
PanelFinish(k, p) ==
  /\ cpc' = [cpc EXCEPT ![k] = "done"]
  /\ path' = [path EXCEPT ![k] = p]
  /\ checkingServers' = FlagAfterFinally(checkingServers, p)
  /\ IF p = "ok"
     THEN uiResult' = "shown" /\ UNCHANGED uiError
     ELSE uiError' = "Failed to check server availability" /\ UNCHANGED uiResult

\* lines 97..115: parse configText, return early or set the flag and call fetch
PanelCall(k, text) ==
  /\ prog = "panel" /\ cpc[k] = "idle"
  /\ \A j \in 1..(k - 1) : cpc[j] # "idle"
  /\ CASE text = "invalid" ->
            /\ uiError' = "Invalid JSON format"
            /\ checkingServers' = FALSE
            /\ cpc' = [cpc EXCEPT ![k] = "done"]
            /\ path' = [path EXCEPT ![k] = "badjson"]
            /\ UNCHANGED uiResult
       [] text = "noServers" ->
            /\ uiError' = "No servers configured or invalid configuration"
            /\ cpc' = [cpc EXCEPT ![k] = "done"]
            /\ path' = [path EXCEPT ![k] = "noservers"]
            /\ UNCHANGED <<checkingServers, uiResult>>
       [] text = "servers" ->
            /\ checkingServers' = TRUE
            /\ uiError' = "null"
            /\ uiResult' = "empty"
            /\ cpc' = [cpc EXCEPT ![k] = "fetching"]
            /\ UNCHANGED path
  /\ UNCHANGED <<prog, mcpVars, eventVars, hookVars>>

\* fetch resolves with response.ok; response.json() is awaited (line 122)
PanelFetchOk(k) ==
  /\ prog = "panel" /\ cpc[k] = "fetching"
  /\ cpc' = [cpc EXCEPT ![k] = "parsing"]
  /\ UNCHANGED <<prog, mcpVars, eventVars, hookVars, checkingServers, path, uiError, uiResult>>

\* fetch resolves with !response.ok: line 119 throws
PanelFetchNotOk(k) ==
  /\ prog = "panel" /\ cpc[k] = "fetching"
  /\ PanelFinish(k, "notok")
  /\ UNCHANGED <<prog, mcpVars, eventVars, hookVars>>

\* fetch rejects (network error)
PanelFetchError(k) ==
  /\ prog = "panel" /\ cpc[k] = "fetching"
  /\ PanelFinish(k, "network")
  /\ UNCHANGED <<prog, mcpVars, eventVars, hookVars>>

\* lines 124..130: the body has serverStatus and serverErrors
PanelJsonValid(k) ==
  /\ prog = "panel" /\ cpc[k] = "parsing"
  /\ PanelFinish(k, "ok")
  /\ UNCHANGED <<prog, mcpVars, eventVars, hookVars>>

\* lines 131..133: the body has another shape
PanelJsonInvalid(k) ==
  /\ prog = "panel" /\ cpc[k] = "parsing"
  /\ PanelFinish(k, "format")
  /\ UNCHANGED <<prog, mcpVars, eventVars, hookVars>>

\* response.json() rejects (line 122)
PanelJsonFail(k) ==
  /\ prog = "panel" /\ cpc[k] = "parsing"
  /\ PanelFinish(k, "body")
  /\ UNCHANGED <<prog, mcpVars, eventVars, hookVars>>

Next ==
  \/ CheckBegin
  \/ \E i \in 1..n : CheckStartUnit(i)
  \/ \E i \in 1..n : CheckInvalid(i)
  \/ \E i \in 1..n : CheckConnectOk(i)
  \/ \E i \in 1..n : CheckConnectFail(i)
  \/ \E i \in 1..n : CheckVerifyOk(i)
  \/ \E i \in 1..n : CheckVerifyFail(i)
  \/ \E i \in 1..n : CheckToolsOk(i)
  \/ \E i \in 1..n : CheckToolsFail(i)
  \/ \E i \in 1..n : CheckCloseOk(i)
  \/ \E i \in 1..n : CheckCloseFail(i)
  \/ CheckRespond
  \/ ClientsBegin
  \/ \E i \in 1..n : ClientsStartUnit(i)
  \/ \E i \in 1..n : ClientsConnectOk(i)
  \/ \E i \in 1..n : ClientsConnectFail(i)
  \/ \E i \in 1..n : ClientsVerifyOk(i)
  \/ \E i \in 1..n : ClientsVerifyFail(i)
  \/ \E i \in 1..n : ClientsToolsOk(i)
  \/ \E i \in 1..n : ClientsToolsFail(i)
  \/ ClientsReturn
  \/ ClientsCloseAll
  \/ \E i \in 1..n : ClientsCloseOk(i)
  \/ \E i \in 1..n : ClientsCloseFail(i)
  \/ ClientsCloseReturn
  \/ \E cb \in Callbacks : AddListener(cb)
  \/ \E cb \in Callbacks : Unsubscribe(cb)
  \/ NotifyChange
  \/ \E c \in ConfigValues : UpdateStart(c)
  \/ UpdateSaveOk
  \/ UpdateSaveFail
  \/ \E k \in 1..MaxChecks, text \in ConfigTexts : PanelCall(k, text)
  \/ \E k \in 1..MaxChecks : PanelFetchOk(k)
  \/ \E k \in 1..MaxChecks : PanelFetchNotOk(k)
  \/ \E k \in 1..MaxChecks : PanelFetchError(k)
  \/ \E k \in 1..MaxChecks : PanelJsonValid(k)
  \/ \E k \in 1..MaxChecks : PanelJsonInvalid(k)
  \/ \E k \in 1..MaxChecks : PanelJsonFail(k)

Spec == Init /\ [][Next]_vars

SpecTyped == InitTyped /\ [][Next]_vars

\* the steps of the check cycle: the event loop runs every continuation that is
\* ready, and every connect, tools() and close() that was issued completes
CheckSteps ==
  \/ CheckBegin
  \/ CheckRespond
  \/ \E i \in 1..n :
       \/ CheckStartUnit(i) \/ CheckInvalid(i)
       \/ CheckConnectOk(i) \/ CheckConnectFail(i)
       \/ CheckVerifyOk(i) \/ CheckVerifyFail(i)
       \/ CheckToolsOk(i) \/ CheckToolsFail(i)
       \/ CheckCloseOk(i) \/ CheckCloseFail(i)

SpecFair == InitPaths /\ [][Next]_vars /\ WF_vars(CheckSteps)

(***************************************************************************)
(* Properties                                                              *)
(***************************************************************************)
CheckResponded == prog = "check" /\ phase = "responded"

ClientsReturned == prog = "clients" /\ phase = "responded"

AllOk == [connect |-> "ok", probe1 |-> "ok", probe2 |-> "ok", close |-> "ok"]

\* server i suffered a failure at some step
Failed(i) ==
  \/ ValidationError(i, cfg[i]) # NoError
  \/ \E f \in {"connect", "probe1", "probe2", "close"} : outcome[i][f] = "fail"

Max(S) == CHOOSE m \in S : \A k \in S : k <= m

\* C1: every connection created during a check cycle has had close() called on it
\* exactly once by the time the action has returned its response.
C1_EveryConnectionClosedOnce ==
  CheckResponded =>
    \A i \in 1..n : outcome[i].connect = "ok" => closeCalls[i] = 1

\* C2: fault isolation: a server whose connect, probes and close all succeed is
\* reported with status true and its declared tools, whatever happens to the others.
C2_FaultIsolation ==
  (CheckResponded /\ kind = "object") =>
    \A b \in 1..n :
      outcome[b] = AllOk =>
        /\ response.status = 200
        /\ b \in DOMAIN response.serverStatus
        /\ response.serverStatus[b] = TRUE
        /\ b \in DOMAIN response.serverTools
        /\ response.serverTools[b] = ToolSetOf(b, toolsOf[b])

C2_Witness ==
  /\ CheckResponded /\ response.status = 200
  /\ \E a, b \in 1..n :
       /\ a # b
       /\ outcome[b] = AllOk /\ toolsOf[b] # {}
       /\ response.serverStatus[b] = TRUE
       /\ Failed(a) /\ response.serverStatus[a] = FALSE

\* C3: the successful response holds exactly one status per entry of the input
\* mapping: the keys of serverStatus are the keys of mcpServers.
C3_ExactlyNOutcomes ==
  (CheckResponded /\ response.status = 200) =>
    DOMAIN response.serverStatus = 1..n

C3_Witness ==
  /\ CheckResponded /\ response.status = 200
  /\ n >= 2
  /\ \E a, b \in 1..n : Failed(a) /\ ~Failed(b)
  /\ DOMAIN response.serverStatus = 1..n

\* C4: with mcpServers an object mapping the action answers 200 with the per-server
\* result, and every per-server failure is present as data in serverErrors.
C4_NoCallLevelError ==
  (CheckResponded /\ kind = "object") =>
    /\ response.status = 200
    /\ \A i \in 1..n : Failed(i) => i \in DOMAIN response.serverErrors

C4_Witness ==
  /\ CheckResponded /\ kind = "object" /\ response.status = 200
  /\ \E i, j \in 1..n :
       /\ outcome[i].close = "fail"
       /\ ValidationError(j, cfg[j]) # NoError \/ outcome[j].connect = "fail"

\* C5: with mcpServers missing or not an object the action never starts a unit,
\* never creates a transport, records no outcome, and answers with a non-2xx status.
C5_MalformedInput ==
  (prog = "check" /\ kind \in {"undefined", "null", "string", "number"}) =>
    /\ \A i \in 1..n : pc[i] = "idle" /\ transport[i] = {} /\ outcome[i] = NoOutcome
    /\ serverStatus = EmptyMap /\ serverErrors = EmptyMap /\ serverTools = EmptyMap
    /\ phase = "responded" =>
         /\ response.status >= 400
         /\ response.error # << >>
         /\ response.serverStatus = EmptyMap

C5_Witness ==
  /\ CheckResponded /\ kind = "string" /\ n > 0
  /\ response.status = 400

\* C6: in every response a server with status false has no (or an empty) tools
\* entry and a non-empty error entry.
C6_UnreachableHasNoTools ==
  (CheckResponded /\ response.status = 200) =>
    \A i \in DOMAIN response.serverStatus :
      response.serverStatus[i] = FALSE =>
        /\ i \in DOMAIN response.serverTools => DOMAIN response.serverTools[i] = {}
        /\ i \in DOMAIN response.serverErrors
        /\ response.serverErrors[i] # << >>

\* C7: a probe failure on an established connection is reported as status true with
\* an error and no tools, never as status false.
C7_ProbeFailureIsReachable ==
  (CheckResponded /\ response.status = 200) =>
    \A i \in 1..n :
      (outcome[i].connect = "ok" /\ (outcome[i].probe1 = "fail" \/ outcome[i].probe2 = "fail")) =>
        /\ i \in DOMAIN response.serverStatus
        /\ response.serverStatus[i] = TRUE
        /\ i \in DOMAIN response.serverErrors
        /\ i \notin DOMAIN response.serverTools

\* C8: a close() failure does not fail the call and does not change the recorded
\* outcome: connect and probes succeeded means status true, the tools, and no error.
C8_CloseFailureOnlyLogged ==
  CheckResponded =>
    \A i \in 1..n :
      (outcome[i].probe2 = "ok" /\ outcome[i].close = "fail") =>
        /\ response.status = 200
        /\ i \in DOMAIN response.serverStatus
        /\ response.serverStatus[i] = TRUE
        /\ i \in DOMAIN response.serverTools
        /\ response.serverTools[i] = ToolSetOf(i, toolsOf[i])
        /\ i \notin DOMAIN response.serverErrors

\* the connected servers whose tools() answer, as used by createMCPClients, declares t
Declarers(t) == {i \in 1..n : outcome[i].connect = "ok" /\ t \in toolsOf[i]}

\* C9: in the flat mapping createMCPClients returns, a tool name declared by an
\* earlier and a later server maps to the descriptor of the latest server declaring
\* it, and a name declared by one server only maps to that server's descriptor.
C9_LastWriterWins ==
  ClientsReturned =>
    \A t \in ToolNames :
      /\ \A a, b \in Declarers(t) :
           (a < b /\ \A c \in Declarers(t) : c <= b) =>
             (t \in DOMAIN tools /\ tools[t] = Descriptor(b, t))
      /\ \A s \in Declarers(t) :
           Declarers(t) = {s} => (t \in DOMAIN tools /\ tools[t] = Descriptor(s, t))

C9_Witness ==
  /\ ClientsReturned
  /\ \E a, b \in 1..n : a < b /\ {a, b} \subseteq Declarers("x") /\ tools["x"] = Descriptor(b, "x")
  /\ \E s \in 1..n : Declarers("y") = {s} /\ tools["y"] = Descriptor(s, "y")

\* the outputs as functions of the input mapping and the per-server results alone
ExpectedTools ==
  [t \in {u \in ToolNames : Declarers(u) # {}} |-> Descriptor(Max(Declarers(t)), t)]

ExpectedStatus == [i \in 1..n |-> outcome[i].probe1 = "ok" /\ outcome[i].close # "fail"]

ExpectedErrors ==
  [i \in {j \in 1..n : Failed(j)} |->
     IF ValidationError(i, cfg[i]) # NoError THEN ValidationError(i, cfg[i])
     ELSE IF outcome[i].connect = "fail" THEN ConnectError(cfg[i], fault[i].connect)
     ELSE IF outcome[i].probe1 = "fail" THEN VerifyError(fault[i].probe1)
     ELSE IF outcome[i].close = "fail" THEN fault[i].close
     ELSE ToolsError(fault[i].probe2)]

ExpectedServerTools ==
  [i \in {j \in 1..n : outcome[j].probe2 = "ok"} |-> ToolSetOf(i, toolsOf[i])]

\* C10: for a fixed input mapping and fixed per-server results the outputs (the flat
\* tools of createMCPClients; serverStatus, serverErrors and serverTools of the
\* action) are the same whatever the order in which the servers' operations completed.
C10_OrderIndependent ==
  /\ ClientsReturned => tools = ExpectedTools
  /\ (CheckResponded /\ response.status = 200) =>
       /\ response.serverStatus = ExpectedStatus
       /\ response.serverErrors = ExpectedErrors
       /\ response.serverTools = ExpectedServerTools

C10_Witness ==
  /\ CheckResponded /\ response.status = 200
  /\ jitter
  /\ \E a, b \in 1..n : a < b /\ Failed(a) /\ outcome[b] = AllOk /\ toolsOf[b] # {}

\* the kind a spec claims, and whether the spec is invalid for that kind
InvalidSpec(c) ==
  \/ c.isNull
  \/ c.type = "sse" /\ ~c.url
  \/ c.type = "stdio" /\ ~c.command
  \/ c.type = "absent" /\ ~c.command /\ ~c.url

\* C11: an invalid server specification (event-stream without URL, subprocess without
\* command, null config) never gets a transport or a connection attempt, and its
\* outcome is status false with the invalid-configuration error.
C11_InvalidSpecRejected ==
  (prog = "check" /\ kind = "object") =>
    \A i \in 1..n :
      InvalidSpec(cfg[i]) =>
        /\ transport[i] = {}
        /\ outcome[i] = NoOutcome
        /\ CheckResponded =>
             /\ i \in DOMAIN response.serverStatus
             /\ response.serverStatus[i] = FALSE
             /\ i \in DOMAIN response.serverErrors
             /\ ValidationError(i, cfg[i]) # NoError
             /\ response.serverErrors[i] = ValidationError(i, cfg[i])

\* C12: in every response a server has an error entry exactly when its status is
\* false or its status is true and its probe failed; a server with status true and a
\* successful probe has no error entry and has a tools entry.
C12_ErrorEntryIffFailure ==
  (CheckResponded /\ response.status = 200) =>
    \A i \in 1..n :
      /\ i \in DOMAIN response.serverStatus
      /\ (i \in DOMAIN response.serverErrors) <=>
           (~response.serverStatus[i] \/ (response.serverStatus[i] /\ outcome[i].probe2 = "fail"))
      /\ (response.serverStatus[i] /\ outcome[i].probe2 = "ok") =>
           (i \notin DOMAIN response.serverErrors /\ i \in DOMAIN response.serverTools)

C12_Witness ==
  /\ CheckResponded /\ response.status = 200
  /\ \E a, b \in 1..n :
       /\ response.serverStatus[a] /\ outcome[a].probe2 = "fail"
       /\ a \in DOMAIN response.serverErrors
       /\ ~response.serverStatus[b] /\ b \in DOMAIN response.serverErrors

\* C13: closeMCPClients calls close() exactly once on every client of the list, also
\* when some closes fail, and it completes without raising once every close settled.
C13_CloseAllNeverRaises ==
  /\ (prog = "clients" /\ phase \in {"closing", "closed", "rejected"}) =>
       \A k \in 1..Len(clients) : closeCalls[clients[k]] = 1
  /\ (prog = "clients" /\ phase \in {"closed", "rejected"}) =>
       /\ phase = "closed"
       /\ \A k \in 1..Len(clients) : outcome[clients[k]].close \in {"ok", "fail"}

C13_Witness ==
  /\ prog = "clients" /\ phase = "closed"
  /\ \E a, b \in 1..Len(clients) :
       /\ outcome[clients[a]].close = "fail" /\ closeCalls[clients[a]] = 1
       /\ outcome[clients[b]].close = "ok" /\ closeCalls[clients[b]] = 1

\* C14: the action builds its response only after every unit has terminated: at the
\* response every server has a recorded outcome and no unit is connecting, probing
\* or closing.
C14_NoPartialResult ==
  (CheckResponded /\ kind = "object") =>
    /\ response.status = 200
    /\ \A i \in 1..n :
         /\ pc[i] = "done"
         /\ i \in DOMAIN response.serverStatus
         /\ outcome[i].connect = "ok" /\ outcome[i].probe1 = "ok" =>
              outcome[i].probe2 # "none" /\ outcome[i].close # "none"

C14_Witness ==
  /\ CheckResponded /\ response.status = 200 /\ n >= 2 /\ jitter
  /\ \A i \in 1..n : pc[i] = "done" /\ outcome[i].close # "none"

\* the end-to-end example: "git" {command} connects and reports its tools, "remote"
\* {type: "sse", url} fails to connect with "connection refused"
GitCfg == [isNull |-> FALSE, type |-> "absent", command |-> TRUE, url |-> FALSE]

RemoteCfg == [isNull |-> FALSE, type |-> "sse", command |-> FALSE, url |-> TRUE]

EndToEndCase ==
  /\ CheckResponded /\ kind = "object" /\ n = 2
  /\ cfg[1] = GitCfg /\ cfg[2] = RemoteCfg
  /\ outcome[1] = AllOk
  /\ outcome[2].connect = "fail" /\ fault[2].connect = <<"connection refused">>

EndToEndShape ==
  /\ response.status = 200
  /\ DOMAIN response.serverStatus = {1, 2}
  /\ response.serverStatus[1] = TRUE /\ response.serverStatus[2] = FALSE
  /\ DOMAIN response.serverErrors = {2}
  /\ DOMAIN response.serverTools = {1}
  /\ response.serverTools[1] = ToolSetOf(1, toolsOf[1])

\* C15 as stated: in the end-to-end example the response is serverStatus {git: true,
\* remote: false}, serverErrors {remote: "connection refused"} (exactly the
\* transport's error), serverTools {git: T}.
C15_EndToEndOriginal ==
  EndToEndCase =>
    /\ EndToEndShape
    /\ response.serverErrors[2] = <<"connection refused">>

\* C15 amended: as above, with serverErrors.remote the text createSSEClient builds:
\* 'Failed to connect to SSE endpoint "<url>": connection refused'.
C15_EndToEnd ==
  EndToEndCase =>
    /\ EndToEndShape
    /\ response.serverErrors[2] =
         <<"Failed to connect to SSE endpoint \"", "url", "\": ", "connection refused">>

C15_Witness ==
  /\ EndToEndCase
  /\ toolsOf[1] # {}
  /\ response.serverStatus[2] = FALSE

\* C16: a config with type "sse" is only ever handled by the event-stream transport,
\* a config without type "sse" that has a command only by the subprocess transport,
\* and no config is ever handled by more than one transport kind.
C16_TransportSelection ==
  \A i \in 1..n :
    LET c == cfg[i]
        attempted == pc[i] \notin {"idle", "threw"} /\ ValidationError(i, c) = NoError
    IN /\ Cardinality(transport[i]) <= 1
       /\ (~c.isNull /\ c.type = "sse") =>
            (transport[i] \subseteq {"sse"} /\ (attempted => transport[i] = {"sse"}))
       /\ (~c.isNull /\ c.type # "sse" /\ c.command) =>
            (transport[i] \subseteq {"stdio"} /\ (attempted => transport[i] = {"stdio"}))

C16_Witness ==
  \E i, j \in 1..n :
    /\ cfg[i].type = "sse" /\ cfg[i].command /\ cfg[i].url /\ transport[i] = {"sse"}
    /\ cfg[j].type = "absent" /\ cfg[j].command /\ cfg[j].url /\ transport[j] = {"stdio"}
    /\ outcome[i].connect = "ok" /\ outcome[j].connect = "ok"

\* C17: tools() is invoked at most once on each established connection, in a check
\* cycle and in a createMCPClients call.
C17_SingleProbe ==
  \A i \in 1..n : probeCalls[i] <= 1

\* C18: each serverStatus entry is written once, only when its unit has finished all
\* its work, and its value never changes afterwards.
C18_StatusWriteOnce ==
  [][prog = "check" =>
       \A i \in 1..n :
         /\ i \in DOMAIN serverStatus =>
              (i \in DOMAIN serverStatus' /\ serverStatus'[i] = serverStatus[i])
         /\ (i \notin DOMAIN serverStatus /\ i \in DOMAIN serverStatus') => pc'[i] = "done"]_vars

\* C19: the action starts every server's unit without waiting for any connect, probe
\* or close to complete, and a started unit can always take its next step whatever
\* the state of the other units.
C19_FanOut ==
  (prog = "check" /\ phase = "running") =>
    /\ \A i \in 1..n :
         (pc[i] = "idle" /\ \A j \in 1..(i - 1) : pc[j] # "idle") =>
           /\ ENABLED CheckStartUnit(i)
           /\ \A j \in 1..n : outcome[j] = NoOutcome /\ j \notin DOMAIN serverStatus
    /\ AllStarted =>
         \A i \in 1..n :
           /\ pc[i] = "threw" => ENABLED CheckInvalid(i)
           /\ pc[i] = "connecting" => (ENABLED CheckConnectOk(i) /\ ENABLED CheckConnectFail(i))
           /\ pc[i] = "probe1" => (ENABLED CheckVerifyOk(i) /\ ENABLED CheckVerifyFail(i))
           /\ pc[i] = "probe2" => (ENABLED CheckToolsOk(i) /\ ENABLED CheckToolsFail(i))
           /\ pc[i] = "closing" => (ENABLED CheckCloseOk(i) /\ ENABLED CheckCloseFail(i))

C19_Witness ==
  /\ prog = "check" /\ phase = "running"
  /\ \E a, b \in 1..n :
       /\ a < b
       /\ pc[a] = "connecting" /\ transport[a] # {}
       /\ pc[b] = "done" /\ outcome[b] = AllOk /\ b \in DOMAIN serverStatus

\* C20: createMCPClients does not let a server block the ones after it: the connection
\* attempt of a server can start while an earlier server is still connecting or probing.
C20_ClientsConcurrent ==
  (prog = "clients" /\ phase = "running") =>
    \A i \in 1..n :
      (pc[i] = "idle" /\ \A j \in 1..(i - 1) : pc[j] # "idle") => ENABLED ClientsStartUnit(i)

\* C21: when every connect, probe and close that was issued completes, the check
\* action eventually returns a response, for every input.
C21_CheckTerminates ==
  (prog = "check") ~> (prog = "check" /\ phase = "responded" /\ response.status # 0)

C21_Witness ==
  /\ CheckResponded /\ response.status = 200 /\ n >= 2
  /\ \E a, b \in 1..n : outcome[a].close = "fail" /\ outcome[b].connect = "fail"

\* C22: after createMCPClients returned and closeMCPClients ran on the returned
\* clients: clients holds exactly the connections createMCPClient returned, each
\* once and in input order; every entry of tools was declared by a server whose
\* connection is in clients; a failed server contributes neither a client nor a
\* tool; and no connection established during the call is left open.
C22_ReturnedAndClosed ==
  (prog = "clients" /\ phase = "closed") =>
    /\ {clients[k] : k \in 1..Len(clients)} = {i \in 1..n : outcome[i].probe1 = "ok"}
    /\ \A a, b \in 1..Len(clients) : a < b => clients[a] < clients[b]
    /\ \A t \in DOMAIN tools :
         \E k \in 1..Len(clients) :
           /\ outcome[clients[k]].probe2 = "ok" /\ t \in toolsOf[clients[k]]
           /\ tools[t] = Descriptor(clients[k], t)
    /\ \A i \in 1..n :
         outcome[i].probe1 # "ok" =>
           /\ \A k \in 1..Len(clients) : clients[k] # i
           /\ \A t \in DOMAIN tools : tools[t] # Descriptor(i, t)
    /\ \A i \in 1..n : outcome[i].connect = "ok" => closeCalls[i] = 1

\* C23: in the check action close() is called on a connection only once the action's
\* own tools() call on it has completed, with a result or an error, and tools() is
\* never called on a connection after close() was called on it.
C23_NoUseAfterClose ==
  [][prog = "check" =>
       \A i \in 1..n :
         /\ closeCalls'[i] > closeCalls[i] => outcome'[i].probe2 \in {"ok", "fail"}
         /\ closeCalls[i] > 0 => probeCalls'[i] = probeCalls[i]]_vars

C23_Witness ==
  /\ prog = "check" /\ n >= 2
  /\ \E a, b \in 1..n :
       /\ closeCalls[a] = 1 /\ probeCalls[a] = 2 /\ outcome[a].probe2 = "fail"
       /\ closeCalls[b] = 1 /\ probeCalls[b] = 2 /\ outcome[b].probe2 = "ok"

\* C24 as stated: notifyChange invokes each currently registered distinct callback
\* exactly once and never a callback whose unsubscribe function has been called;
\* adding a callback twice registers it once; unsubscribing twice is harmless.
C24_RegistryOriginal ==
  prog \in {"events", "hook"} =>
    /\ Elements(listeners) = registered
    /\ \A a, b \in 1..Len(listeners) : listeners[a] = listeners[b] => a = b
    /\ lastOp = "notify" =>
         \A cb \in Callbacks :
           /\ cb \in registered => invoked[cb] = 1
           /\ cb \in unsubscribed => invoked[cb] = 0

\* C24: notifyChange invokes each currently registered distinct callback exactly
\* once and never a callback that was unsubscribed since it was last added; adding
\* a callback twice registers it once; unsubscribing twice is harmless.
C24_Registry ==
  prog \in {"events", "hook"} =>
    /\ Elements(listeners) = registered
    /\ \A a, b \in 1..Len(listeners) : listeners[a] = listeners[b] => a = b
    /\ lastOp = "notify" =>
         \A cb \in Callbacks :
           /\ cb \in registered => invoked[cb] = 1
           /\ cb \notin registered => invoked[cb] = 0

C24_Witness ==
  /\ prog = "events" /\ lastOp = "notify"
  /\ repeated = {"add", "unsubscribe"}
  /\ registered = {"f"} /\ unsubscribed = {"f", "g"}
  /\ invoked = [cb \in Callbacks |-> IF cb = "f" THEN 1 ELSE 0]

\* C25: updateConfig changes config and lastUpdate and calls notifyChange only in
\* the step in which the save to storage has succeeded; a call without a database
\* and a call whose save fails leave config and lastUpdate unchanged and notify
\* no listener.
C25_UpdateAfterSave ==
  [][prog = "hook" =>
       /\ (config' # config \/ lastUpdate' # lastUpdate \/ notified' # notified
             \/ invoked' # invoked) =>
            /\ upc = "saving" /\ upc' = "idle"
            /\ stored' = pending /\ config' = pending
            /\ toast' = "MCP configuration saved"
       /\ (now' # now /\ (~db \/ toast' = "Failed to save MCP configuration")) =>
            UNCHANGED <<config, lastUpdate, notified, invoked, lastOp, stored>>]_vars

C25_Witness ==
  /\ prog = "hook" /\ db /\ upc = "idle"
  /\ toast = "Failed to save MCP configuration"
  /\ config = "c1" /\ stored = "c1" /\ pending = "c2"
  /\ notified = 1 /\ lastUpdate = 2 /\ now = 4
  /\ invoked["f"] = 1

\* C26: every checkServerAvailability call that set checkingServers to true sets it
\* to false in the step in which it finishes, whatever the path (response accepted,
\* non-OK response, network error, invalid format); a call that returns early never
\* raises the flag; so the flag is false whenever no call is in flight.
C26_FlagNeverStuck ==
  [][prog = "panel" =>
       /\ \A k \in 1..MaxChecks :
            /\ (cpc[k] \in InFlight /\ cpc'[k] = "done") => ~checkingServers'
            /\ (cpc[k] = "idle" /\ cpc'[k] = "done") => (checkingServers' => checkingServers)
       /\ (\A k \in 1..MaxChecks : cpc'[k] \notin InFlight) => ~checkingServers']_vars

C26_Witness ==
  /\ prog = "panel" /\ ~checkingServers
  /\ cpc = [k \in 1..MaxChecks |-> "done"]
  /\ path[1] \in {"notok", "network", "format"}
  /\ path[2] = "ok"
====
